---- MODULE Spec2Model ----
(***************************************************************************)
(* Model of ingest_knowledge_interactive.py: an interactive store of       *)
(* natural-language facts kept in three ChromaDB collections, one per      *)
(* embedding model.                                                        *)
(*                                                                         *)
(* Strings on which the program computes (substring tests, prefixing,      *)
(* lower(), strip(), endswith()) are sequences of one-character strings.   *)
(* Strings that are only compared for equality (ids, file names, dict      *)
(* keys, aliases) are TLA+ strings.  A file name stands for the name after *)
(* the ".json" suffix has been appended.                                   *)
(***************************************************************************)
EXTENDS Integers, Sequences, FiniteSets, TLC

VARIABLES
    args,       \* parsed command line (parse_args)
    cols,       \* the ChromaDB server: collection -> (id -> fact)
    fs,         \* the files the session has written: name -> JSON value
    now,        \* time.time() in milliseconds when the last fact was typed
    pc,         \* "start" before main runs, "prompt" when input() waits for a
                \* line, "ran" when the line has been handled, "done" after main
    id_map,     \* main's id_map: ordinal -> id
    lastCmd,    \* the command just handled
    lastOut,    \* what it printed or logged
    lastOps,    \* the backend calls it made, in order
    lastRaw,    \* raw result ids of its query, in backend order
    displayed   \* ids of the entries its listing or query numbered 1..M

vars == <<args, cols, fs, now, pc, id_map, lastCmd, lastOut, lastOps, lastRaw, displayed>>

----------------------------------------------------------------------------
(* Bounds *)

MaxClock == 1        \* time.time() takes the values 0..MaxClock milliseconds
MaxOrdinal == 2      \* '-k' is typed with k in 0..MaxOrdinal
MaxTextLen == 20     \* stored documents are at most this long

----------------------------------------------------------------------------
(* Python string operations *)

LowerChar(c) ==
    CASE c = "A" -> "a" [] c = "B" -> "b" [] c = "D" -> "d" [] c = "E" -> "e"
      [] c = "G" -> "g" [] c = "I" -> "i" [] c = "L" -> "l" [] c = "M" -> "m"
      [] c = "O" -> "o" [] c = "P" -> "p" [] c = "R" -> "r" [] c = "T" -> "t"
      [] c = "X" -> "x" [] c = "Q" -> "q" [] c = "U" -> "u" [] c = "Y" -> "y"
      [] OTHER -> c

Lower(s) == [i \in 1..Len(s) |-> LowerChar(s[i])]

\* sub in s
Contains(sub, s) ==
    \E i \in 0..(Len(s) - Len(sub)) : SubSeq(s, i + 1, i + Len(sub)) = sub

\* s.endswith(suffix)
EndsWith(s, suffix) ==
    /\ Len(suffix) <= Len(s)
    /\ SubSeq(s, Len(s) - Len(suffix) + 1, Len(s)) = suffix

RECURSIVE LStrip(_)
LStrip(s) == IF s # <<>> /\ Head(s) = " " THEN LStrip(Tail(s)) ELSE s

RECURSIVE RStrip(_)
RStrip(s) ==
    IF s # <<>> /\ s[Len(s)] = " " THEN RStrip(SubSeq(s, 1, Len(s) - 1)) ELSE s

\* s.strip()
Strip(s) == RStrip(LStrip(s))

----------------------------------------------------------------------------
(* String literals of the program *)

BgeBaseModel == <<"B","A","A","I","/","b","g","e","-","b","a","s","e","-","e","n","-","v","1",".","5">>
BgeLargeModel == <<"B","A","A","I","/","b","g","e","-","l","a","r","g","e","-","e","n","-","v","1",".","5">>
E5LargeModel == <<"i","n","t","f","l","o","a","t","/","e","5","-","l","a","r","g","e","-","v","2">>
BgeBasePrefix == <<"b","g","e","_","b","a","s","e","_">>
BgeLargePrefix == <<"b","g","e","_","l","a","r","g","e","_">>
E5LargePrefix == <<"e","5","_","l","a","r","g","e","_">>
ImportedData == <<"i","m","p","o","r","t","e","d","_","d","a","t","a">>
BgeQueryPrefix == <<"R","e","p","r","e","s","e","n","t"," ","t","h","i","s"," ","s","e","n","t","e","n","c","e"," ","f","o","r"," ","s","e","a","r","c","h","i","n","g"," ","r","e","l","e","v","a","n","t"," ","p","a","s","s","a","g","e","s",":"," ">>
E5QueryPrefix == <<"q","u","e","r","y",":"," ">>
E5PassagePrefix == <<"p","a","s","s","a","g","e",":"," ">>
StrBge == <<"b","g","e">>
StrE5 == <<"e","5">>
StrQuery == <<"q","u","e","r","y">>
StrDocument == <<"d","o","c","u","m","e","n","t">>
StrAll == <<"a","l","l">>
StrDataMart == <<"d","a","t","a","_","m","a","r","t">>
StrReporting == <<"r","e","p","o","r","t","i","n","g">>
StrUser == <<"u","s","e","r">>

----------------------------------------------------------------------------
(* Python and JSON values whose type the program tests *)

PyNone == [type |-> "none", val |-> <<>>]
PyList(s) == [type |-> "list", val |-> s]
PyDict(f) == [type |-> "dict", val |-> f]
PyStr(s) == [type |-> "str", val |-> s]

\* bool(x) of a list or None
Truthy(x) == x.type = "list" /\ Len(x.val) > 0

----------------------------------------------------------------------------
(* resolve_embedding_model *)

model_map ==
    [a \in {"bge-base", "bge-large", "e5-large", "bb", "bl", "e5"} |->
        CASE a \in {"bge-base", "bb"} -> <<BgeBaseModel, BgeBasePrefix>>
          [] a \in {"bge-large", "bl"} -> <<BgeLargeModel, BgeLargePrefix>>
          [] a \in {"e5-large", "e5"} -> <<E5LargeModel, E5LargePrefix>>]

\* resolve_embedding_model falling back to the last entry of the table
resolve_embedding_modelLastDefault(model_input) ==
    IF model_input \in DOMAIN model_map
    THEN model_map[model_input]
    ELSE model_map["e5"]

resolve_embedding_model(model_input) ==
    IF model_input \in DOMAIN model_map
    THEN model_map[model_input]
    ELSE model_map["bge-base"]

----------------------------------------------------------------------------
(* format_for_embedding *)

\* format_for_embedding without model_name.lower()
format_for_embeddingCaseSensitive(text, model_name, mode) ==
    LET m == model_name
        md == Lower(mode)
    IN  IF Contains(StrBge, m)
        THEN IF md = StrQuery THEN BgeQueryPrefix \o text ELSE text
        ELSE IF Contains(StrE5, m)
             THEN IF md = StrQuery THEN E5QueryPrefix \o text
                                   ELSE E5PassagePrefix \o text
             ELSE text

format_for_embedding(text, model_name, mode) ==
    LET m == Lower(model_name)
        md == Lower(mode)
    IN  IF Contains(StrBge, m)
        THEN IF md = StrQuery THEN BgeQueryPrefix \o text ELSE text
        ELSE IF Contains(StrE5, m)
             THEN IF md = StrQuery THEN E5QueryPrefix \o text
                                   ELSE E5PassagePrefix \o text
             ELSE text

----------------------------------------------------------------------------
(* main: values computed from the command line before the loop *)

\* lines 257-260
model_name(a) ==
    IF a.embedding_model # ""
    THEN resolve_embedding_model(a.embedding_model)[1]
    ELSE resolve_embedding_model("bge-base")[1]

prefix(a) ==
    IF a.embedding_model # ""
    THEN resolve_embedding_model(a.embedding_model)[2]
    ELSE resolve_embedding_model("bge-base")[2]

\* lines 262-267
schema_list(schemas) ==
    IF schemas.type = "none"
    THEN PyList(<<StrDataMart, StrReporting>>)
    ELSE IF [i \in 1..Len(schemas.val) |-> Lower(schemas.val[i])] = <<StrAll>>
         THEN PyNone
         ELSE schemas

\* line 269
allowed_schemas(schemas) ==
    LET sl == schema_list(schemas)
    IN  IF Truthy(sl)
        THEN PyList([i \in 1..Len(sl.val) |-> Lower(Strip(sl.val[i]))])
        ELSE PyNone

\* name=prefix + "imported_data"
CollectionName(pfx) == pfx \o ImportedData

\* get_all_collections_for_type: the model set, in its fixed order
models == <<"bge-base", "bge-large", "e5-large">>

\* The server's collections are those of the model set; the state names a
\* collection by the entry of 'models' whose prefix gives its name.
ModelSetNames == {models[i] : i \in 1..Len(models)}
ModelSetName(i) == models[i]
ModelSetModel(i) == resolve_embedding_model(models[i])[1]
NameOnServer(c) == CollectionName(resolve_embedding_model(c)[2])

\* the collection main opens and queries (lines 274-278)
collection ==
    CHOOSE c \in ModelSetNames : NameOnServer(c) = CollectionName(prefix(args))

----------------------------------------------------------------------------
(* The ChromaDB server.  A collection is a function from ids to            *)
(* [document, metadata]; the server holds one collection per name.  A      *)
(* metadata is the dict the client passed (or None).                       *)

EmptyCollection == [u \in {} |-> [document |-> <<>>, metadata |-> PyNone]]

Ids(col) == DOMAIN col

\* collection.delete(ids=...): ids that are absent are ignored
CollectionDelete(col, ids) == [u \in (DOMAIN col) \ ids |-> col[u]]

\* ids of a batch, as a sequence, are pairwise different
Distinct(ids) == \A i, j \in 1..Len(ids) : i # j => ids[i] # ids[j]

\* collection.add(documents, ids, metadatas): an id that is already stored
\* keeps its stored document and metadata
CollectionAdd(col, ids, docs, metas) ==
    LET new == {ids[i] : i \in 1..Len(ids)}
        Pos(u) == CHOOSE i \in 1..Len(ids) : ids[i] = u
    IN  [u \in (DOMAIN col) \cup new |->
            IF u \in DOMAIN col
            THEN col[u]
            ELSE [document |-> docs[Pos(u)], metadata |-> metas[Pos(u)]]]

\* the server rejects a batch with a repeated id or with a metadata that is
\* not a dict
AddAccepted(ids, metas) ==
    /\ Distinct(ids)
    /\ \A i \in 1..Len(metas) : metas[i].type = "dict"

(* A handler runs its backend calls in order.  st.cols is the server state  *)
(* so far, st.ops the calls made, st.err whether an exception is            *)
(* propagating.  The server may fail a call that writes or queries          *)
(* (connection error, server error): st.f is the number of such calls it    *)
(* answers before it fails one.                                             *)

FailingCalls == {"delete", "add", "query"}

Answered(ops) == Len(SelectSeq(ops, LAMBDA o : o.call \in FailingCalls))

Begin(cs, f) == [cols |-> cs, ops |-> <<>>, err |-> FALSE, f |-> f]

\* one backend call on collection c; accepted = the server accepts the
\* arguments; newcols = the server state when the call succeeds
BackendCall(st, call, c, accepted, newcols) ==
    IF st.err
    THEN st
    ELSE IF (call \in FailingCalls /\ Answered(st.ops) = st.f) \/ ~accepted
         THEN [st EXCEPT !.err = TRUE,
                         !.ops = Append(@, [call |-> call, col |-> c, ok |-> FALSE])]
         ELSE [st EXCEPT !.cols = newcols,
                         !.ops = Append(@, [call |-> call, col |-> c, ok |-> TRUE])]

\* a Python exception raised between backend calls (KeyError, TypeError)
Raise(st, cond) == IF ~st.err /\ cond THEN [st EXCEPT !.err = TRUE] ELSE st

\* col.delete(ids=col.get()["ids"]) without the test of existing_ids: the
\* server rejects an empty list of ids
ClearCollectionUnconditional(st, c) ==
    LET s1 == BackendCall(st, "get", c, TRUE, st.cols)
    IN  IF s1.err
        THEN s1
        ELSE BackendCall(s1, "delete", c, Ids(s1.cols[c]) # {},
                         [s1.cols EXCEPT ![c] = EmptyCollection])

\* existing_ids = col.get()["ids"]; if existing_ids: col.delete(ids=existing_ids)
ClearCollection(st, c) ==
    LET s1 == BackendCall(st, "get", c, TRUE, st.cols)
    IN  IF s1.err \/ Ids(s1.cols[c]) = {}
        THEN s1
        ELSE BackendCall(s1, "delete", c, TRUE,
                         [s1.cols EXCEPT ![c] = EmptyCollection])

\* get_all_collections_for_type, one iteration of its loop
OpenCollection(st, i, clear_collections) ==
    LET c == ModelSetName(i)
        s1 == BackendCall(st, "open", c, TRUE, st.cols)
    IN  IF clear_collections THEN ClearCollection(s1, c) ELSE s1

RECURSIVE OpenCollections(_, _, _)
OpenCollections(st, i, clear_collections) ==
    IF i > Len(models)
    THEN st
    ELSE OpenCollections(OpenCollection(st, i, clear_collections), i + 1,
                         clear_collections)

get_all_collections_for_type(st, clear_collections) ==
    OpenCollections(st, 1, clear_collections)

----------------------------------------------------------------------------
(* validate_file_structure *)

Min(a, b) == IF a < b THEN a ELSE b

validate_file_structure(file_data) ==
    /\ file_data.type = "list"
    /\ Len(file_data.val) # 0
    /\ \A i \in 1..Min(3, Len(file_data.val)) :
          LET entry == file_data.val[i]
          IN  /\ entry.type = "dict"
              /\ "text" \in DOMAIN entry.val
              /\ "metadata" \in DOMAIN entry.val
              /\ entry.val["metadata"].type = "dict"

----------------------------------------------------------------------------
(* Inputs: the files on disk at the start, the facts an earlier session     *)
(* left on the server, the command lines and the lines typed at the prompt. *)

TextA == <<"a">>
TextB == <<"b">>
TextC == <<"c">>
SchemaReporting == <<"X",".","R","e","p","o","r","t","i","n","g">>
SchemaDataMart == <<"x",".","d","a","t","a","_","m","a","r","t">>
SchemaOther == <<"x",".","o","t","h","e","r">>

MetaFile == [source |-> <<"f">>]
MetaReporting == [schema |-> SchemaReporting]
MetaOther == [schema |-> SchemaOther]

Entry(id, text, meta) ==
    PyDict([id |-> id, text |-> text, metadata |-> PyDict(meta)])

Missing == [type |-> "missing", val |-> <<>>]

Files ==
    [n \in {"f2", "f4bad", "bad1", "metastr", "noid", "out"} |->
        CASE n = "f2" -> PyList(<<Entry("u1", TextA, MetaReporting),
                                  Entry("u2", TextB, MetaOther)>>)
          [] n = "f4bad" -> PyList(<<Entry("u1", TextA, MetaFile),
                                     Entry("u2", TextB, MetaFile),
                                     Entry("u3", TextC, MetaFile),
                                     PyDict([id |-> "u4", text |-> TextA])>>)
          [] n = "bad1" -> PyList(<<PyDict([id |-> "u1", text |-> TextA])>>)
          [] n = "metastr" -> PyList(<<PyDict([id |-> "u1", text |-> TextA,
                                               metadata |-> PyStr(TextB)])>>)
          [] n = "noid" -> PyList(<<PyDict([text |-> TextA,
                                            metadata |-> PyDict(MetaFile)])>>)
          [] n = "out" -> Missing]

FileNames == DOMAIN Files

\* open(filename, "r"); json.load(f)
ReadFile(written, filename) ==
    IF filename \in DOMAIN written THEN written[filename] ELSE Files[filename]

\* open(filename, "w"); json.dump(output, f)
WriteFile(written, filename, output) ==
    [n \in (DOMAIN written) \cup {filename} |->
        IF n = filename THEN output ELSE written[n]]

Fact(doc, meta) == [document |-> doc, metadata |-> meta]

AllEmpty == [c \in ModelSetNames |-> EmptyCollection]

\* facts of an earlier session: the server keeps them across sessions
Earlier ==
    [c \in ModelSetNames |->
        IF c = "e5-large"
        THEN [u \in {"u2"} |-> Fact(E5PassagePrefix \o TextB, PyDict(MetaFile))]
        ELSE [u \in {"u1"} |-> Fact(TextA, PyDict(MetaReporting))]]


SchemasDefault == PyList(<<StrDataMart, StrReporting>>)
SchemasAll == PyList(<<<<"A","L","L">>>>)               \* -s ALL
SchemasSpaceAll == PyList(<<<<" ","a","l","l">>>>)      \* -s " all"

Args(em, schemas, dont_clear, load_file) ==
    [embedding_model |-> em, schemas |-> schemas, dont_clear |-> dont_clear,
     load_file |-> load_file, source |-> StrUser]

\* the command lines of the sessions
CommandLines ==
    { Args("bl", SchemasDefault, TRUE, ""),
      Args("e5", SchemasSpaceAll, FALSE, "f2"),
      Args("bge-base", SchemasDefault, FALSE, "bad1") }

FreeTexts == {TextA}
Confirmations == {<<" ","Y","e","s">>, <<"y">>}
Variants == {"?", "??", "?!"}

\* f"fact_{int(time.time() * 1000)}"
FactId(ms) ==
    CASE ms = 0 -> "fact_0" [] ms = 1 -> "fact_1" [] ms = 2 -> "fact_2"
      [] ms = 3 -> "fact_3" [] OTHER -> "fact_4"

\* time.strftime("%Y-%m-%d %H:%M:%S"): the second the millisecond lies in
Strftime(ms) == <<"s", ms \div 1000>>

\* no handler makes more than MaxCalls calls that may fail: with a budget of
\* MaxCalls none fails
MaxCalls == 6
Budgets == 0..MaxCalls

Cmd(op) ==
    [op |-> op, k |-> 0, file |-> "", uid |-> "", variant |-> "", confirm |-> <<>>]

EmptyMap == [i \in {} |-> ""]

Init ==
    /\ args \in CommandLines
    /\ cols = (IF args.dont_clear THEN Earlier ELSE AllEmpty)
    /\ fs = [n \in {} |-> Missing]
    /\ now = 0
    /\ pc = "start"
    /\ id_map = EmptyMap
    /\ lastCmd = Cmd("none")
    /\ lastOut = "none"
    /\ lastOps = <<>>
    /\ lastRaw = <<>>
    /\ displayed = <<>>

----------------------------------------------------------------------------
(* Import of a validated file into one collection (lines 318-321, 498-501) *)

HasKey(entry, k) == entry.type = "dict" /\ k \in DOMAIN entry.val
AllHave(file_data, k) ==
    \A i \in 1..Len(file_data.val) : HasKey(file_data.val[i], k)

EntryIds(file_data) ==
    [i \in 1..Len(file_data.val) |-> file_data.val[i].val["id"]]
EntryMetas(file_data) ==
    [i \in 1..Len(file_data.val) |-> file_data.val[i].val["metadata"]]
FormattedDocs(file_data, mname) ==
    [i \in 1..Len(file_data.val) |->
        format_for_embedding(file_data.val[i].val["text"], mname, StrDocument)]

AddEntries(st, c, mname, file_data) ==
    LET s1 == Raise(st, ~AllHave(file_data, "text"))
        s2 == Raise(s1, ~AllHave(file_data, "id"))
        s3 == Raise(s2, ~AllHave(file_data, "metadata"))
    IN  IF s3.err
        THEN s3
        ELSE LET ids == EntryIds(file_data)
                 metas == EntryMetas(file_data)
                 docs == FormattedDocs(file_data, mname)
             IN  BackendCall(s3, "add", c, AddAccepted(ids, metas),
                     [s3.cols EXCEPT ![c] =
                         CollectionAdd(@, ids, docs, metas)])

\* the documents an import would store stay within the bound
WithinBound(file_data) ==
    \A i \in 1..Len(file_data.val) :
        HasKey(file_data.val[i], "text") =>
            Len(E5PassagePrefix) + Len(file_data.val[i].val["text"]) <= MaxTextLen

----------------------------------------------------------------------------
(* main, lines 271-328: open the primary collection, clear it unless       *)
(* --dont-clear, load the --load-file                                      *)

StartupOpen(st) ==
    LET s1 == BackendCall(st, "open", collection, TRUE, st.cols)
    IN  IF ~args.dont_clear
        THEN ClearCollection(s1, collection)
        ELSE BackendCall(s1, "get", collection, TRUE, s1.cols)

StartupLoad(st, file_data) ==
    LET s1 == IF ~args.dont_clear THEN ClearCollection(st, collection) ELSE st
    IN  AddEntries(s1, collection, model_name(args), file_data)

Startup(f) ==
    /\ pc = "start"
    /\ LET s1 == StartupOpen(Begin(cols, f))
           file_data == ReadFile(fs, args.load_file)
           s2 == StartupLoad(s1, file_data)
       IN  IF s1.err
           THEN \* the exception leaves main: the program ends
                /\ cols' = s1.cols /\ lastOps' = s1.ops
                /\ lastOut' = "crash" /\ pc' = "done"
           ELSE IF args.load_file = ""
           THEN /\ cols' = s1.cols /\ lastOps' = s1.ops
                /\ lastOut' = "ok" /\ pc' = "ran"
           ELSE IF file_data.type = "missing"
           THEN /\ cols' = s1.cols /\ lastOps' = s1.ops
                /\ lastOut' = "error" /\ pc' = "done"
           ELSE IF ~validate_file_structure(file_data)
           THEN /\ cols' = s1.cols /\ lastOps' = s1.ops
                /\ lastOut' = "invalid" /\ pc' = "done"
           ELSE /\ WithinBound(file_data)
                /\ cols' = s2.cols /\ lastOps' = s2.ops
                /\ lastOut' = (IF s2.err THEN "error" ELSE "ok")
                /\ pc' = (IF s2.err THEN "done" ELSE "ran")
    /\ lastCmd' = Cmd("startup")
    /\ id_map' = EmptyMap
    /\ UNCHANGED <<args, fs, now, lastRaw, displayed>>

----------------------------------------------------------------------------
(* Results of the backend, in an order the backend chooses *)

Orderings(S) ==
    {s \in [1..Cardinality(S) -> S] : \A i, j \in 1..Cardinality(S) :
                                          i # j => s[i] # s[j]}

\* collection.get(): all entries
IdOrder == <<"u1", "u2", "u3", "u4", "fact_0", "fact_1", "fact_2", "fact_3">>
GetOrder(S) == {SelectSeq(IdOrder, LAMBDA u : u \in S)}

\* the ids the fixtures store, in a fixed order
RankOrder ==
    IdOrder \o <<"r1", "r2", "r3", "r4", "r5", "r6">>
            \o <<"d01", "d02", "d03", "d04", "d05", "d06", "d07", "d08", "d09",
                 "d10", "d11", "d12", "d13", "d14", "d15", "d16", "d17">>

Rotations(seq) ==
    {[i \in 1..Len(seq) |-> seq[((i + r - 1) % Len(seq)) + 1]] :
        r \in 0..(Len(seq) - 1)}

\* the rankings of a collection for a query: every ordering of its ids when it
\* holds at most MaxRanked ids, the rotations of RankOrder when it holds more
MaxRanked == 3

Rankings(S) ==
    IF Cardinality(S) <= MaxRanked
    THEN Orderings(S)
    ELSE Rotations(SelectSeq(RankOrder, LAMBDA u : u \in S))

\* collection.query(n_results=n): the n nearest entries, nearest first
QueryResults(col, n) ==
    {SubSeq(r, 1, Min(n, Len(r))) : r \in Rankings(Ids(col))}

\* zip(raw_ids, raw_docs, raw_metas)
Zip(col, raw_ids) ==
    [i \in 1..Len(raw_ids) |->
        [uid |-> raw_ids[i], doc |-> col[raw_ids[i]].document,
         meta |-> col[raw_ids[i]].metadata]]

SeqIds(results) == [i \in 1..Len(results) |-> results[i].uid]

----------------------------------------------------------------------------
(* main, lines 376-384: the schema filter of a query *)

\* Dropped without the case folding of line 381
DroppedCaseSensitive(allowed, meta) ==
    /\ Truthy(allowed)
    /\ allowed.val # <<StrAll>>
    /\ meta.type = "dict" /\ DOMAIN meta.val # {}
    /\ "schema" \in DOMAIN meta.val
    /\ ~\E i \in 1..Len(allowed.val) :
            EndsWith(meta.val["schema"], allowed.val[i])

\* the condition under which the loop executes 'continue'
Dropped(allowed, meta) ==
    /\ Truthy(allowed)
    /\ allowed.val # <<StrAll>>
    /\ meta.type = "dict" /\ DOMAIN meta.val # {}
    /\ "schema" \in DOMAIN meta.val
    /\ ~\E i \in 1..Len(allowed.val) :
            EndsWith(Lower(meta.val["schema"]), allowed.val[i])

SchemaFilter(allowed, results) ==
    SelectSeq(results, LAMBDA r : ~Dropped(allowed, r.meta))

----------------------------------------------------------------------------
(* The commands of the loop (lines 337-532) *)

AtPrompt == pc = "prompt"

\* line 339: the loop is back at input(); the output of the command handled
\* before is history
Prompt ==
    /\ pc = "ran"
    /\ pc' = "prompt"
    /\ lastCmd' = Cmd("none") /\ lastOut' = "none" /\ lastOps' = <<>>
    /\ lastRaw' = <<>> /\ displayed' = <<>>
    /\ UNCHANGED <<args, cols, fs, now, id_map>>

\* what a command leaves behind when it neither lists nor queries
NoListing == lastRaw' = <<>> /\ displayed' = <<>>

\* lines 339-341: an empty line
EmptyLine ==
    /\ AtPrompt
    /\ lastCmd' = Cmd("empty") /\ lastOut' = "none" /\ lastOps' = <<>>
    /\ NoListing
    /\ pc' = "ran"
    /\ UNCHANGED <<args, cols, fs, now, id_map>>

\* lines 343-345, 524-529: 'exit' or 'quit', Ctrl-C, end of input
Leave(how) ==
    /\ AtPrompt
    /\ pc' = "done"
    /\ lastCmd' = Cmd(how) /\ lastOut' = "bye" /\ lastOps' = <<>>
    /\ NoListing
    /\ UNCHANGED <<args, cols, fs, now, id_map>>

\* display_stored_facts, called for '?', '??' and '?!' without a query string
\* (lines 362-365)
display_stored_facts(f) ==
    /\ AtPrompt
    /\ LET s1 == BackendCall(Begin(cols, f), "get", collection, TRUE, cols)
       IN  /\ lastOps' = s1.ops
           /\ IF s1.err
              THEN /\ lastOut' = "error" /\ displayed' = <<>>
                   /\ UNCHANGED id_map
              ELSE IF Ids(cols[collection]) = {}
              THEN /\ lastOut' = "empty" /\ displayed' = <<>>
                   /\ id_map' = EmptyMap
              ELSE \E order \in GetOrder(Ids(cols[collection])) :
                     /\ lastOut' = "ok" /\ displayed' = order
                     /\ id_map' = [idx \in 1..Len(order) |-> order[idx]]
    /\ lastCmd' = Cmd("list")
    /\ lastRaw' = <<>>
    /\ pc' = "ran"
    /\ UNCHANGED <<args, cols, fs, now>>

\* n_results without the 8 of '?'
n_resultsAlways16(variant) == IF variant = "?" THEN 16 ELSE 16

\* lines 348-360
n_results(variant) == IF variant = "?" THEN 8 ELSE 16

\* line 392-393 on a document of one line: line.split(':', 1)[1]
LabelFails(doc) == doc # <<>> /\ ~Contains(<<":">>, doc)

\* the entries printed before the loop of lines 391-394 raises
RECURSIVE Labelled(_)
Labelled(results) ==
    IF results = <<>> \/ LabelFails(Head(results).doc)
    THEN <<>>
    ELSE <<Head(results)>> \o Labelled(Tail(results))

\* a query whose except handler empties the index map
QueryResettingMap(f, variant) ==
    /\ AtPrompt
    /\ LET s1 == BackendCall(Begin(cols, f), "query", collection, TRUE, cols)
       IN  /\ lastOps' = s1.ops
           /\ IF s1.err
              THEN lastOut' = "error" /\ lastRaw' = <<>> /\ displayed' = <<>>
              ELSE \E raw_ids \in QueryResults(cols[collection], n_results(variant)) :
                     LET filtered == SchemaFilter(allowed_schemas(args.schemas),
                                                  Zip(cols[collection], raw_ids))
                         shown == IF variant = "?!" THEN Labelled(filtered)
                                                    ELSE filtered
                     IN  /\ lastRaw' = raw_ids
                         /\ displayed' = SeqIds(shown)
                         /\ lastOut' = IF filtered = <<>> THEN "nomatch"
                                       ELSE IF shown # filtered THEN "error"
                                       ELSE "ok"
    /\ lastCmd' = [Cmd("query") EXCEPT !.variant = variant]
    /\ pc' = "ran"
    /\ id_map' = (IF lastOut' = "error" THEN EmptyMap ELSE id_map)
    /\ UNCHANGED <<args, cols, fs, now>>

\* a query without the 'continue' of line 413: the line is stored as a fact
QueryStoringLine(f, variant) ==
    /\ AtPrompt
    /\ LET s1 == BackendCall(Begin(cols, f), "query", collection, TRUE, cols)
       IN  /\ lastOps' = s1.ops
           /\ IF s1.err
              THEN lastOut' = "error" /\ lastRaw' = <<>> /\ displayed' = <<>>
              ELSE \E raw_ids \in QueryResults(cols[collection], n_results(variant)) :
                     LET filtered == SchemaFilter(allowed_schemas(args.schemas),
                                                  Zip(cols[collection], raw_ids))
                         shown == IF variant = "?!" THEN Labelled(filtered)
                                                    ELSE filtered
                     IN  /\ lastRaw' = raw_ids
                         /\ displayed' = SeqIds(shown)
                         /\ lastOut' = IF filtered = <<>> THEN "nomatch"
                                       ELSE IF shown # filtered THEN "error"
                                       ELSE "ok"
    /\ lastCmd' = [Cmd("query") EXCEPT !.variant = variant]
    /\ pc' = "ran"
    /\ cols' = [cols EXCEPT ![collection] =
                    CollectionAdd(@, <<FactId(now)>>, <<<<"?">>>>,
                        <<PyDict([source |-> args.source,
                                  timestamp |-> Strftime(now)])>>)]
    /\ UNCHANGED <<args, fs, now, id_map>>

\* '?text', '??text', '?!text' (lines 367-413)
Query(f, variant) ==
    /\ AtPrompt
    /\ LET s1 == BackendCall(Begin(cols, f), "query", collection, TRUE, cols)
       IN  /\ lastOps' = s1.ops
           /\ IF s1.err
              THEN lastOut' = "error" /\ lastRaw' = <<>> /\ displayed' = <<>>
              ELSE \E raw_ids \in QueryResults(cols[collection], n_results(variant)) :
                     LET filtered == SchemaFilter(allowed_schemas(args.schemas),
                                                  Zip(cols[collection], raw_ids))
                         shown == IF variant = "?!" THEN Labelled(filtered)
                                                    ELSE filtered
                     IN  /\ lastRaw' = raw_ids
                         /\ displayed' = SeqIds(shown)
                         /\ lastOut' = IF filtered = <<>> THEN "nomatch"
                                       ELSE IF shown # filtered THEN "error"
                                       ELSE "ok"
    /\ lastCmd' = [Cmd("query") EXCEPT !.variant = variant]
    /\ pc' = "ran"
    /\ UNCHANGED <<args, cols, fs, now, id_map>>

\* one iteration of the loop of lines 424-427
RECURSIVE ClearAll(_, _)
ClearAll(st, i) ==
    IF i > Len(models) THEN st
    ELSE ClearAll(ClearCollection(st, ModelSetName(i)), i + 1)

\* '-all' deleting on every answer but "no"
DeleteAllUnlessNo(f, confirm) ==
    /\ AtPrompt
    /\ IF Lower(Strip(confirm)) # <<"n","o">>
       THEN LET s1 == get_all_collections_for_type(Begin(cols, f), TRUE)
                s2 == ClearAll(s1, 1)
            IN  /\ cols' = s2.cols /\ lastOps' = s2.ops
                /\ lastOut' = IF s2.err THEN "error" ELSE "ok"
       ELSE /\ lastOut' = "cancelled" /\ lastOps' = <<>>
            /\ UNCHANGED cols
    /\ lastCmd' = [Cmd("delete_all") EXCEPT !.confirm = confirm]
    /\ NoListing
    /\ pc' = "ran"
    /\ UNCHANGED <<args, fs, now, id_map>>

\* '-all' (lines 417-432)
DeleteAll(f, confirm) ==
    /\ AtPrompt
    /\ IF Lower(Strip(confirm)) = <<"y","e","s">>
       THEN LET s1 == get_all_collections_for_type(Begin(cols, f), TRUE)
                s2 == ClearAll(s1, 1)
            IN  /\ cols' = s2.cols /\ lastOps' = s2.ops
                /\ lastOut' = IF s2.err THEN "error" ELSE "ok"
       ELSE /\ lastOut' = "cancelled" /\ lastOps' = <<>>
            /\ UNCHANGED cols
    /\ lastCmd' = [Cmd("delete_all") EXCEPT !.confirm = confirm]
    /\ NoListing
    /\ pc' = "ran"
    /\ UNCHANGED <<args, fs, now, id_map>>

\* the loop of lines 440-441
RECURSIVE DeleteFromAll(_, _, _)
DeleteFromAll(st, i, uid) ==
    IF i > Len(models) THEN st
    ELSE LET c == ModelSetName(i)
         IN  DeleteFromAll(
                 BackendCall(st, "delete", c, TRUE,
                     [st.cols EXCEPT ![c] = CollectionDelete(@, {uid})]),
                 i + 1, uid)

\* '-k' deleting from the primary collection only
DeleteOrdinalPrimaryOnly(f, idx) ==
    /\ AtPrompt
    /\ IF idx \in DOMAIN id_map
       THEN LET uid == id_map[idx]
                s2 == BackendCall(Begin(cols, f), "delete", collection, TRUE,
                          [cols EXCEPT ![collection] = CollectionDelete(@, {uid})])
            IN  /\ cols' = s2.cols /\ lastOps' = s2.ops
                /\ lastOut' = (IF s2.err THEN "error" ELSE "ok")
                /\ id_map' = IF s2.err THEN id_map
                             ELSE [i \in (DOMAIN id_map) \ {idx} |-> id_map[i]]
                /\ lastCmd' = [Cmd("delete") EXCEPT !.k = idx, !.uid = uid]
       ELSE /\ lastOut' = "warn" /\ lastOps' = <<>>
            /\ lastCmd' = [Cmd("delete") EXCEPT !.k = idx]
            /\ UNCHANGED <<cols, id_map>>
    /\ NoListing
    /\ pc' = "ran"
    /\ UNCHANGED <<args, fs, now>>

\* '-k' opening (and clearing) the collections before it looks up the ordinal
DeleteOrdinalOpenFirst(f, idx) ==
    /\ AtPrompt
    /\ LET s1 == get_all_collections_for_type(Begin(cols, f), TRUE)
       IN  IF idx \in DOMAIN id_map
           THEN LET uid == id_map[idx]
                    s2 == DeleteFromAll(s1, 1, uid)
                IN  /\ cols' = s2.cols /\ lastOps' = s2.ops
                    /\ lastOut' = (IF s2.err THEN "error" ELSE "ok")
                    /\ id_map' = IF s2.err THEN id_map
                                 ELSE [i \in (DOMAIN id_map) \ {idx} |-> id_map[i]]
                    /\ lastCmd' = [Cmd("delete") EXCEPT !.k = idx, !.uid = uid]
           ELSE /\ cols' = s1.cols /\ lastOps' = s1.ops
                /\ lastOut' = (IF s1.err THEN "error" ELSE "warn")
                /\ lastCmd' = [Cmd("delete") EXCEPT !.k = idx]
                /\ UNCHANGED id_map
    /\ NoListing
    /\ pc' = "ran"
    /\ UNCHANGED <<args, fs, now>>

\* '-k' (lines 433-448)
DeleteOrdinal(f, idx) ==
    /\ AtPrompt
    /\ IF idx \in DOMAIN id_map
       THEN LET uid == id_map[idx]
                s1 == get_all_collections_for_type(Begin(cols, f), TRUE)
                s2 == DeleteFromAll(s1, 1, uid)
            IN  /\ cols' = s2.cols /\ lastOps' = s2.ops
                /\ lastOut' = (IF s2.err THEN "error" ELSE "ok")
                /\ id_map' = IF s2.err THEN id_map
                             ELSE [i \in (DOMAIN id_map) \ {idx} |-> id_map[i]]
                /\ lastCmd' = [Cmd("delete") EXCEPT !.k = idx, !.uid = uid]
       ELSE /\ lastOut' = "warn" /\ lastOps' = <<>>
            /\ lastCmd' = [Cmd("delete") EXCEPT !.k = idx]
            /\ UNCHANGED <<cols, id_map>>
    /\ NoListing
    /\ pc' = "ran"
    /\ UNCHANGED <<args, fs, now>>

\* 'w file' (lines 449-476)
Export(f, filename) ==
    /\ AtPrompt
    /\ LET s1 == BackendCall(Begin(cols, f), "get", collection, TRUE, cols)
           col == cols[collection]
       IN  /\ lastOps' = s1.ops
           /\ IF s1.err
              THEN lastOut' = "error" /\ UNCHANGED fs
              ELSE \E order \in GetOrder(Ids(col)) :
                     /\ fs' = WriteFile(fs, filename,
                            PyList([i \in 1..Len(order) |->
                                PyDict([id |-> order[i],
                                        text |-> col[order[i]].document,
                                        metadata |-> col[order[i]].metadata])]))
                     /\ lastOut' = "ok"
    /\ lastCmd' = [Cmd("export") EXCEPT !.file = filename]
    /\ NoListing
    /\ pc' = "ran"
    /\ UNCHANGED <<args, cols, now, id_map>>

\* the loop of lines 494-501
RECURSIVE ImportAll(_, _, _)
ImportAll(st, i, file_data) ==
    IF i > Len(models) THEN st
    ELSE LET c == ModelSetName(i)
         IN  ImportAll(AddEntries(ClearCollection(st, c), c, ModelSetModel(i),
                                  file_data),
                       i + 1, file_data)

\* 'r file' leaving main on a file it cannot import, as the startup load does
ImportOrReturn(f, filename) ==
    /\ AtPrompt
    /\ LET file_data == ReadFile(fs, filename)
           s1 == get_all_collections_for_type(Begin(cols, f), FALSE)
           s2 == ImportAll(s1, 1, file_data)
       IN  IF file_data.type = "missing"
           THEN /\ lastOut' = "error" /\ lastOps' = <<>> /\ UNCHANGED cols
                /\ pc' = "done"
           ELSE IF ~validate_file_structure(file_data)
           THEN /\ lastOut' = "invalid" /\ lastOps' = <<>> /\ UNCHANGED cols
                /\ pc' = "done"
           ELSE /\ WithinBound(file_data)
                /\ cols' = s2.cols /\ lastOps' = s2.ops
                /\ lastOut' = (IF s2.err THEN "error" ELSE "ok")
                /\ pc' = (IF s2.err THEN "done" ELSE "ran")
    /\ lastCmd' = [Cmd("import") EXCEPT !.file = filename]
    /\ NoListing
    /\ UNCHANGED <<args, fs, now, id_map>>

\* 'r file' (lines 477-509)
Import(f, filename) ==
    /\ AtPrompt
    /\ LET file_data == ReadFile(fs, filename)
           s1 == get_all_collections_for_type(Begin(cols, f), FALSE)
           s2 == ImportAll(s1, 1, file_data)
       IN  IF file_data.type = "missing"
           THEN lastOut' = "error" /\ lastOps' = <<>> /\ UNCHANGED cols
           ELSE IF ~validate_file_structure(file_data)
           THEN lastOut' = "invalid" /\ lastOps' = <<>> /\ UNCHANGED cols
           ELSE /\ WithinBound(file_data)
                /\ cols' = s2.cols /\ lastOps' = s2.ops
                /\ lastOut' = IF s2.err THEN "error" ELSE "ok"
    /\ lastCmd' = [Cmd("import") EXCEPT !.file = filename]
    /\ NoListing
    /\ pc' = "ran"
    /\ UNCHANGED <<args, fs, now, id_map>>

\* any other line is stored as a fact (lines 510-522)
AddFact(f, user_input, dt) ==
    /\ AtPrompt
    /\ now + dt <= MaxClock
    /\ now' = now + dt
    /\ LET uid == FactId(now')
           metadata == PyDict([source |-> args.source, timestamp |-> Strftime(now')])
           formatted_text == format_for_embedding(user_input, model_name(args),
                                                  StrDocument)
           s1 == BackendCall(Begin(cols, f), "add", collection, TRUE,
                     [cols EXCEPT ![collection] =
                         CollectionAdd(@, <<uid>>, <<formatted_text>>, <<metadata>>)])
       IN  /\ Len(formatted_text) <= MaxTextLen
           /\ cols' = s1.cols /\ lastOps' = s1.ops
           /\ lastOut' = (IF s1.err THEN "error" ELSE "ok")
           /\ lastCmd' = [Cmd("add") EXCEPT !.uid = uid]
    /\ NoListing
    /\ pc' = "ran"
    /\ UNCHANGED <<args, fs, id_map>>

----------------------------------------------------------------------------

FailOrNot == {0, MaxCalls}

Next ==
    \/ \E f \in Budgets : Startup(f)
    \/ Prompt
    \/ EmptyLine
    \/ \E how \in {"exit", "interrupt", "eof"} : Leave(how)
    \/ \E f \in FailOrNot : display_stored_facts(f)
    \/ \E f \in FailOrNot, v \in Variants : Query(f, v)
    \/ \E f \in Budgets, c \in Confirmations : DeleteAll(f, c)
    \/ \E f \in Budgets, k \in 0..MaxOrdinal : DeleteOrdinal(f, k)
    \/ \E f \in Budgets, n \in FileNames : Import(f, n)
    \/ \E f \in FailOrNot, t \in FreeTexts, dt \in 0..1 : AddFact(f, t, dt)

Spec == Init /\ [][Next]_vars

----------------------------------------------------------------------------
(* Queries over stores and schema lists chosen to exercise the filter: the  *)
(* session starts with --dont-clear on a primary collection an earlier      *)
(* session filled, and only queries it.                                     *)

DocLabelled == <<"k", ":", "v">>

Samples ==
    [u \in {"r1", "r2", "r3", "r4", "r5", "r6"} |->
        CASE u = "r1" -> Fact(DocLabelled, PyDict([schema |->
                            <<"x",".","r","e","p","o","r","t","i","n","g">>]))
          [] u = "r2" -> Fact(DocLabelled, PyDict([schema |-> SchemaDataMart]))
          [] u = "r3" -> Fact(DocLabelled, PyDict(MetaFile))
          [] u = "r4" -> Fact(DocLabelled, PyDict([schema |-> SchemaReporting,
                                                   source |-> <<"f">>]))
          [] u = "r5" -> Fact(DocLabelled, PyDict([schema |-> SchemaOther]))
          [] u = "r6" -> Fact(DocLabelled, PyNone)]

MaxStored == 3       \* the primary collection holds at most this many samples

FilterStores ==
    {[c \in ModelSetNames |->
        IF c = "bge-base" THEN [u \in S |-> Samples[u]] ELSE EmptyCollection] :
     S \in {X \in SUBSET DOMAIN Samples : Cardinality(X) <= MaxStored}}

FilterSchemaArgs ==
    { SchemasDefault, SchemasAll, SchemasSpaceAll,
      PyList(<<StrReporting>>),
      PyList(<<<<"R","e","p","o","r","t","i","n","g"," ">>>>),
      PyList(<<StrAll, StrReporting>>),
      PyList(<<<<>>>>) }

InitFilter ==
    /\ args \in {Args("bge-base", sc, TRUE, "") : sc \in FilterSchemaArgs}
    /\ cols \in FilterStores
    /\ fs = [n \in {} |-> Missing]
    /\ now = 0
    /\ pc = "start"
    /\ id_map = EmptyMap
    /\ lastCmd = Cmd("none")
    /\ lastOut = "none"
    /\ lastOps = <<>>
    /\ lastRaw = <<>>
    /\ displayed = <<>>

NextFilter ==
    \/ \E f \in FailOrNot : Startup(f)
    \/ Prompt
    \/ \E f \in FailOrNot, v \in Variants : Query(f, v)

SpecFilter == InitFilter /\ [][NextFilter]_vars

----------------------------------------------------------------------------
(* Queries over primary collections that hold about as many facts as a      *)
(* query asks for (8 or 16), or more.                                       *)

BigIds ==
    <<"d01", "d02", "d03", "d04", "d05", "d06", "d07", "d08", "d09",
      "d10", "d11", "d12", "d13", "d14", "d15", "d16", "d17">>

\* the i-th fact: every third has a schema no default suffix matches, the one
\* after it a reporting schema, the one after that no schema
BigFact(i) ==
    CASE i % 3 = 0 -> Fact(DocLabelled, PyDict([schema |-> SchemaOther]))
      [] i % 3 = 1 -> Fact(DocLabelled, PyDict([schema |-> SchemaReporting]))
      [] OTHER -> Fact(DocLabelled, PyDict(MetaFile))

BigSizes == {7, 9, 16, 17}

BigStores ==
    {[c \in ModelSetNames |->
        IF c = "bge-base"
        THEN [u \in {BigIds[i] : i \in 1..n} |->
                BigFact(CHOOSE i \in 1..n : BigIds[i] = u)]
        ELSE EmptyCollection] : n \in BigSizes}

InitTopK ==
    /\ args \in {Args("bge-base", sc, TRUE, "") : sc \in {SchemasDefault, SchemasAll}}
    /\ cols \in BigStores
    /\ fs = [n \in {} |-> Missing]
    /\ now = 0
    /\ pc = "start"
    /\ id_map = EmptyMap
    /\ lastCmd = Cmd("none")
    /\ lastOut = "none"
    /\ lastOps = <<>>
    /\ lastRaw = <<>>
    /\ displayed = <<>>

NextTopK ==
    \/ \E f \in FailOrNot : Startup(f)
    \/ Prompt
    \/ \E f \in FailOrNot, v \in Variants : Query(f, v)

SpecTopK == InitTopK /\ [][NextTopK]_vars

----------------------------------------------------------------------------
(* Sessions that only list, query and export, on servers an earlier session *)
(* filled.                                                                  *)

\* a primary collection in which no default suffix matches any schema, and one
\* in which it matches some
OnlyOther ==
    [c \in ModelSetNames |-> [u \in {"u1"} |-> Fact(TextA, PyDict(MetaOther))]]

Mixed ==
    [c \in ModelSetNames |->
        [u \in {"u1", "u2"} |->
            IF u = "u1" THEN Fact(TextA, PyDict(MetaOther))
                        ELSE Fact(DocLabelled, PyDict(MetaReporting))]]

ReadOnlyStores == {AllEmpty, Earlier, OnlyOther, Mixed}

InitReadOnly ==
    /\ args \in {Args(em, SchemasDefault, TRUE, "") : em \in {"bb", "bl", "e5"}}
    /\ cols \in ReadOnlyStores
    /\ fs = [n \in {} |-> Missing]
    /\ now = 0
    /\ pc = "start"
    /\ id_map = EmptyMap
    /\ lastCmd = Cmd("none")
    /\ lastOut = "none"
    /\ lastOps = <<>>
    /\ lastRaw = <<>>
    /\ displayed = <<>>

NextReadOnly ==
    \/ \E f \in FailOrNot : Startup(f)
    \/ Prompt
    \/ \E f \in FailOrNot : display_stored_facts(f)
    \/ \E f \in FailOrNot, v \in Variants : Query(f, v)
    \/ \E f \in FailOrNot, n \in {"out"} : Export(f, n)

SpecReadOnly == InitReadOnly /\ [][NextReadOnly]_vars

----------------------------------------------------------------------------
(* Calls of get_all_collections_for_type, one after the other, on servers   *)
(* whose collections hold any of two facts: lastCmd holds the argument,     *)
(* lastOut whether the call raised and the collections it returned.         *)

OpenStores ==
    {[c \in ModelSetNames |-> [u \in S[c] |-> Fact(TextA, PyDict(MetaFile))]] :
        S \in [ModelSetNames -> SUBSET {"u1", "u2"}]}

InitOpen ==
    /\ cols \in OpenStores
    /\ pc = "call"
    /\ lastCmd = Cmd("none")
    /\ lastOut = "none"
    /\ args = Args("bge-base", SchemasDefault, TRUE, "")
    /\ fs = [n \in {} |-> Missing]
    /\ now = 0
    /\ id_map = EmptyMap
    /\ lastOps = <<>>
    /\ lastRaw = <<>>
    /\ displayed = <<>>

\* the collections the call appended to its list (line 222)
Opened(st) ==
    LET opens == SelectSeq(st.ops, LAMBDA o : o.call = "open")
    IN  [i \in 1..Len(opens) |-> opens[i].col]

OpenAll(f, clear_collections) ==
    /\ pc \in {"call", "returned"}
    /\ LET s1 == get_all_collections_for_type(Begin(cols, f), clear_collections)
       IN  /\ cols' = s1.cols
           /\ lastOps' = s1.ops
           /\ lastOut' = [err |-> s1.err,
                          collections |-> IF s1.err THEN <<>> ELSE Opened(s1)]
    /\ lastCmd' = [op |-> "get_all_collections_for_type",
                   clear_collections |-> clear_collections]
    /\ pc' = "returned"
    /\ UNCHANGED <<args, fs, now, id_map, lastRaw, displayed>>

NextOpen == \E f \in Budgets, clear_collections \in BOOLEAN : OpenAll(f, clear_collections)

SpecOpen == InitOpen /\ [][NextOpen]_vars

----------------------------------------------------------------------------
(* Calls of the two pure functions, resolve_embedding_model and             *)
(* format_for_embedding, on arguments drawn from small sets: pc is "call"   *)
(* before the function runs and "returned" after, lastCmd holds the         *)
(* arguments and lastOut the value returned.                                *)

BgeUpper == <<"B","G","E">>
E5Upper == <<"x","E","5">>
BgeAndE5 == <<"b","g","e","-","e","5">>
OtherModel == <<"g","t","e","-","b","g">>

ModelIds ==
    {BgeBaseModel, BgeLargeModel, E5LargeModel, BgeUpper, E5Upper, BgeAndE5,
     OtherModel, <<>>}

Modes == {StrQuery, StrDocument, <<"Q","U","E","R","Y">>, <<"p","a","s","s","a","g","e">>}

Texts == {<<>>, TextA, <<"q",":"," ">>}

ResolveInputs ==
    {"bge-base", "bge-large", "e5-large", "bb", "bl", "e5",
     "BB", "E5-large", "bge", ""}

FunctionCalls ==
    {[op |-> "format_for_embedding", text |-> t, model_name |-> m, mode |-> md] :
        t \in Texts, m \in ModelIds, md \in Modes}
    \cup {[op |-> "resolve_embedding_model", model_input |-> a] : a \in ResolveInputs}

InitFunctions ==
    /\ lastCmd \in FunctionCalls
    /\ pc = "call"
    /\ lastOut = "none"
    /\ args = Args("bge-base", SchemasDefault, TRUE, "")
    /\ cols = AllEmpty
    /\ fs = [n \in {} |-> Missing]
    /\ now = 0
    /\ id_map = EmptyMap
    /\ lastOps = <<>>
    /\ lastRaw = <<>>
    /\ displayed = <<>>

CallFormat ==
    /\ pc = "call"
    /\ lastCmd.op = "format_for_embedding"
    /\ lastOut' = format_for_embedding(lastCmd.text, lastCmd.model_name, lastCmd.mode)
    /\ pc' = "returned"
    /\ UNCHANGED <<args, cols, fs, now, id_map, lastCmd, lastOps, lastRaw, displayed>>

CallResolve ==
    /\ pc = "call"
    /\ lastCmd.op = "resolve_embedding_model"
    /\ lastOut' = resolve_embedding_model(lastCmd.model_input)
    /\ pc' = "returned"
    /\ UNCHANGED <<args, cols, fs, now, id_map, lastCmd, lastOps, lastRaw, displayed>>

NextFunctions ==
    \/ CallFormat
    \/ CallResolve

SpecFunctions == InitFunctions /\ [][NextFunctions]_vars

----------------------------------------------------------------------------
(* Properties *)

Range(seq) == {seq[i] : i \in 1..Len(seq)}
ModelIndex(c) == CHOOSE i \in 1..Len(models) : models[i] = c
Synchronized == {"import", "delete", "delete_all"}

\* C1: after a synchronized operation (import, delete by ordinal, confirmed
\* delete-all) has completed without error, an id present in one collection
\* of the model set is present in the other two with the same text and the
\* same metadata.
C1_CrossCollectionConsistency ==
    (lastCmd.op \in Synchronized /\ lastOut = "ok") =>
        \A c1, c2 \in ModelSetNames : \A u \in Ids(cols[c1]) :
            /\ u \in Ids(cols[c2])
            /\ cols[c2][u].document = cols[c1][u].document
            /\ cols[c2][u].metadata = cols[c1][u].metadata

\* C2: a '-k' command whose ordinal maps to id u leaves in every collection
\* exactly the facts it held before, minus u.
C2_DeleteRemovesOnlyGivenId ==
    [][(lastCmd'.op = "delete" /\ lastOut' = "ok") =>
          \A c \in ModelSetNames :
              cols'[c] = CollectionDelete(cols[c], {lastCmd'.uid})]_vars

\* C3: after '-k' has deleted the id u its ordinal maps to, u is in no
\* collection of the model set (also when a collection never held u); when u
\* was the only stored fact, all three collections are empty.
C3_DeletedIdAbsentEverywhere ==
    [][(lastCmd'.op = "delete" /\ lastOut' = "ok") =>
          /\ \A c \in ModelSetNames : lastCmd'.uid \notin Ids(cols'[c])
          /\ (\A c \in ModelSetNames : Ids(cols[c]) \subseteq {lastCmd'.uid})
                => \A c \in ModelSetNames : Ids(cols'[c]) = {}]_vars

\* a fact typed at the prompt, which only the primary collection ever held,
\* has been deleted by its ordinal
C3_Witness ==
    /\ lastCmd.op = "delete" /\ lastOut = "ok"
    /\ lastCmd.uid = FactId(0)
    /\ \A c \in ModelSetNames : lastCmd.uid \notin Ids(cols[c])

\* C4: after a query that displays M results numbered 1..M, the index map
\* maps every k in 1..M to the id of the k-th displayed result, so that a
\* following '-k' deletes that id.
C4_QueryProducesIndexMap ==
    (lastCmd.op = "query" /\ lastOut = "ok") =>
        \A k \in 1..Len(displayed) :
            k \in DOMAIN id_map /\ id_map[k] = displayed[k]

\* an entry of an import file as the file format requires it
EntryValid(entry) ==
    /\ entry.type = "dict"
    /\ {"id", "text", "metadata"} \subseteq DOMAIN entry.val
    /\ entry.val["metadata"].type = "dict"

FileValid(file_data) ==
    /\ file_data.type = "list"
    /\ \A i \in 1..Len(file_data.val) : EntryValid(file_data.val[i])

\* C5: an 'r' import of a file with a structurally invalid entry, at any
\* position, leaves every collection of the model set as it was (the backend
\* answering every call made).
C5_InvalidImportChangesNothing ==
    [][(/\ lastCmd'.op = "import"
        /\ ReadFile(fs, lastCmd'.file).type = "list"
        /\ ~FileValid(ReadFile(fs, lastCmd'.file))
        /\ \A n \in 1..Len(lastOps') : lastOps'[n].ok) =>
          cols' = cols]_vars

\* C6: after an 'r' import of N valid entries with distinct ids into non-empty
\* collections has completed, every collection holds exactly the imported
\* ids, each with the file's text and metadata.
C6_ReplaceAllRoundTrip ==
    [][(/\ lastCmd'.op = "import" /\ lastOut' = "ok"
        /\ \A c \in ModelSetNames : Ids(cols[c]) # {}) =>
          LET file_data == ReadFile(fs, lastCmd'.file)
          IN  \A c \in ModelSetNames :
                /\ Ids(cols'[c]) = Range(EntryIds(file_data))
                /\ Cardinality(Ids(cols'[c])) = Len(file_data.val)
                /\ \A i \in 1..Len(file_data.val) :
                     LET entry == file_data.val[i].val
                     IN  /\ cols'[c][entry["id"]].document = entry["text"]
                         /\ cols'[c][entry["id"]].metadata = entry["metadata"]]_vars

\* C7: when a backend call of a synchronized import or delete fails on one
\* collection, the operation is still attempted on every later collection of
\* the model set.
C7_FanOutContinues ==
    (lastCmd.op \in {"import", "delete"}) =>
        \A n \in 1..Len(lastOps) :
            ~lastOps[n].ok =>
                \A j \in (ModelIndex(lastOps[n].col) + 1)..Len(models) :
                    \E m \in (n + 1)..Len(lastOps) :
                        /\ lastOps[m].col = ModelSetName(j)
                        /\ lastOps[m].call \in {"add", "delete"}

\* C8: '-k' with k not in the index map only warns: no collection changes and
\* the index map stays as it is.
C8_StaleOrdinalOnlyWarns ==
    [][(lastCmd'.op = "delete" /\ lastCmd'.k \notin DOMAIN id_map) =>
          /\ lastOut' = "warn"
          /\ cols' = cols
          /\ id_map' = id_map]_vars

\* an ordinal out of range of a non-empty index map, over non-empty collections
C8_Witness ==
    /\ lastCmd.op = "delete" /\ lastOut = "warn"
    /\ id_map # EmptyMap
    /\ lastCmd.k \notin DOMAIN id_map
    /\ \A c \in ModelSetNames : Ids(cols[c]) # {}

\* C9 as claimed: nothing but 'exit'/'quit', an interrupt or end-of-input ends
\* the session, whether an import file is malformed at the 'r' command or at
\* the startup load.
C9_NoErrorEndsSession ==
    [][(pc # "done" /\ pc' = "done") =>
          lastCmd'.op \in {"exit", "interrupt", "eof"}]_vars

\* C9 as amended: once the loop prompts, a malformed import file or a failing
\* backend call aborts only its command and the loop prompts again; the
\* session then ends only on 'exit'/'quit', an interrupt or end-of-input.
\* Before the first prompt, a load file that cannot be imported ends main.
C9_ErrorsAbortOnlyTheCommand ==
    [][/\ (pc = "prompt" /\ pc' = "done") =>
              lastCmd'.op \in {"exit", "interrupt", "eof"}
       /\ (pc = "prompt" /\ lastOut' \in {"error", "invalid"}) => pc' = "ran"
       /\ (pc = "start" /\ pc' = "done") =>
              lastOut' \in {"error", "invalid", "crash"}
       /\ (pc = "ran") => pc' = "prompt"]_vars

\* a failing backend call in an import: the loop goes on
C9_Witness ==
    /\ lastCmd.op = "import" /\ lastOut = "error" /\ pc = "ran"
    /\ \E n \in 1..Len(lastOps) : ~lastOps[n].ok

AllowedSet(allowed) ==
    IF allowed.type = "list" THEN Range(allowed.val) ELSE {}

HasSchema(meta) == meta.type = "dict" /\ "schema" \in DOMAIN meta.val

NoSuffixMatches(allowed, meta) ==
    \A suffix \in AllowedSet(allowed) :
        ~EndsWith(Lower(meta.val["schema"]), suffix)

QueryAnswered == lastCmd.op = "query" /\ lastOut \in {"ok", "nomatch"}

\* C10 as claimed: a query result is dropped if and only if the allowed-suffix
\* set is non-empty, its metadata has a 'schema' key and the case-folded value
\* of that key ends with none of the allowed suffixes.
C10_SchemaFilterAsClaimed ==
    QueryAnswered =>
        LET allowed == allowed_schemas(args.schemas)
        IN  \A u \in Range(lastRaw) :
                LET meta == cols[collection][u].metadata
                IN  (u \notin Range(displayed)) <=>
                        /\ AllowedSet(allowed) # {}
                        /\ HasSchema(meta)
                        /\ NoSuffixMatches(allowed, meta)

\* C10 as amended: ... if and only if the allowed-suffix list is non-empty and
\* is not the single suffix 'all', its metadata has a 'schema' key and the
\* case-folded value of that key ends with none of the allowed suffixes.
C10_SchemaFilter ==
    QueryAnswered =>
        LET allowed == allowed_schemas(args.schemas)
        IN  \A u \in Range(lastRaw) :
                LET meta == cols[collection][u].metadata
                IN  (u \notin Range(displayed)) <=>
                        /\ AllowedSet(allowed) # {}
                        /\ allowed.val # <<StrAll>>
                        /\ HasSchema(meta)
                        /\ NoSuffixMatches(allowed, meta)

\* allowed {"reporting"}; results with schema 'x.reporting', 'x.data_mart' and
\* no schema: exactly the first and the third are displayed
C10_Witness ==
    /\ QueryAnswered
    /\ allowed_schemas(args.schemas) = PyList(<<StrReporting>>)
    /\ Range(lastRaw) = {"r1", "r2", "r3"}
    /\ Range(displayed) = {"r1", "r3"}

Returned(op) == pc = "returned" /\ lastCmd.op = op

\* the model ids of ModelIds by family: those that contain 'bge' in any case,
\* and those that do not but contain 'e5' in any case
BgeFamily == {BgeBaseModel, BgeLargeModel, BgeUpper, BgeAndE5}
E5Family == {E5LargeModel, E5Upper}

\* C11: format(text, model_id, mode) returns, for a model id containing 'bge'
\* in any case, text in document mode and the search instruction followed by
\* text in query mode; otherwise for a model id containing 'e5', 'passage: '
\* + text in document mode and 'query: ' + text in query mode; for any other
\* model id, text in both modes.
C11_FormatByFamily ==
    (Returned("format_for_embedding") /\ lastCmd.mode \in {StrQuery, StrDocument}) =>
        LET text == lastCmd.text
            query == lastCmd.mode = StrQuery
        IN  lastOut =
              IF lastCmd.model_name \in BgeFamily
              THEN (IF query
                    THEN <<"R","e","p","r","e","s","e","n","t"," ","t","h","i","s"," ",
                           "s","e","n","t","e","n","c","e"," ","f","o","r"," ",
                           "s","e","a","r","c","h","i","n","g"," ",
                           "r","e","l","e","v","a","n","t"," ",
                           "p","a","s","s","a","g","e","s",":"," ">> \o text
                    ELSE text)
              ELSE IF lastCmd.model_name \in E5Family
              THEN (IF query THEN <<"q","u","e","r","y",":"," ">> \o text
                             ELSE <<"p","a","s","s","a","g","e",":"," ">> \o text)
              ELSE text

\* a query for an upper-case bge model id has returned
C11_Witness ==
    /\ Returned("format_for_embedding")
    /\ lastCmd.model_name = BgeUpper /\ lastCmd.mode = StrQuery
    /\ lastCmd.text = TextA
    /\ Len(lastOut) = Len(BgeQueryPrefix) + 1

Stored == lastCmd'.op = "add" /\ lastOut' = "ok"

\* C12: every free-text line that is stored gets an id that no fact already
\* in the primary collection has.
C12_FactIdsUnique ==
    [][Stored => lastCmd'.uid \notin Ids(cols[collection])]_vars

\* C13: a free-text line that is stored adds exactly one new fact to the
\* primary collection, holding the document-mode text for the primary model
\* and a metadata with source and timestamp; the facts the primary collection
\* held and the other collections are unchanged.
C13_AddFrame ==
    [][Stored =>
          LET uid == lastCmd'.uid
              old == cols[collection]
              new == cols'[collection]
          IN  /\ uid \notin Ids(old)
              /\ Ids(new) = Ids(old) \cup {uid}
              /\ \E t \in FreeTexts :
                    new[uid].document =
                        format_for_embedding(t, model_name(args), StrDocument)
              /\ new[uid].metadata.type = "dict"
              /\ DOMAIN new[uid].metadata.val = {"source", "timestamp"}
              /\ \A u \in Ids(old) : new[u] = old[u]
              /\ \A c \in ModelSetNames \ {collection} : cols'[c] = cols[c]]_vars

\* C15: whenever '-k' deletes an id, the map entry it uses comes from a listing
\* after which the primary collection was not changed: the id is the one a
\* listing of the primary collection shows at ordinal k when the command is
\* typed.
C15_OrdinalFromFreshListing ==
    [][(lastCmd'.op = "delete" /\ lastOut' = "ok") =>
          \A order \in GetOrder(Ids(cols[collection])) :
              /\ lastCmd'.k \in 1..Len(order)
              /\ order[lastCmd'.k] = lastCmd'.uid]_vars

\* C16: during an 'r' import no collection receives an imported fact until
\* every collection of the model set has been cleared: in the order of the
\* backend calls, every call that clears a collection comes before every call
\* that adds the imported facts.
C16_ClearBeforeAdd ==
    (lastCmd.op = "import") =>
        \A m, n \in 1..Len(lastOps) :
            (lastOps[m].call = "add" /\ lastOps[n].call = "delete") => n < m

PosInRaw(u) == CHOOSE p \in 1..Len(lastRaw) : lastRaw[p] = u

\* a result the schema filter drops: the allowed list is non-empty and not the
\* single suffix 'all', the metadata has a schema and no suffix ends it
FilteredOut(u) ==
    LET allowed == allowed_schemas(args.schemas)
        meta == cols[collection][u].metadata
    IN  /\ AllowedSet(allowed) # {}
        /\ allowed.val # <<StrAll>>
        /\ HasSchema(meta)
        /\ NoSuffixMatches(allowed, meta)

FixedOrder == <<"bge-base", "bge-large", "e5-large">>

\* C18: get_all_collections_for_type without clearing returns the three
\* collections in the fixed order and leaves every collection as it was,
\* however often it is called; with clearing, every collection it returns is
\* empty, and a collection that is already empty gets no delete call and so
\* causes no error.
C18_OpenKeepsOrClears ==
    [][(lastCmd'.op = "get_all_collections_for_type") =>
          /\ ~lastCmd'.clear_collections =>
                /\ ~lastOut'.err
                /\ lastOut'.collections = FixedOrder
                /\ cols' = cols
          /\ (lastCmd'.clear_collections /\ ~lastOut'.err) =>
                /\ lastOut'.collections = FixedOrder
                /\ \A c \in ModelSetNames : Ids(cols'[c]) = {}
          /\ \A n \in 1..Len(lastOps') :
                lastOps'[n].call = "delete" => Ids(cols[lastOps'[n].col]) # {}
          /\ (\A c \in ModelSetNames : Ids(cols[c]) = {}) => ~lastOut'.err]_vars

\* a clearing call on a server with one empty and two non-empty collections
\* has returned: two delete calls were made
C18_Witness ==
    /\ pc = "returned" /\ lastCmd.op = "get_all_collections_for_type"
    /\ lastCmd.clear_collections /\ ~lastOut.err
    /\ \A c \in ModelSetNames : Ids(cols[c]) = {}
    /\ Len(SelectSeq(lastOps, LAMBDA o : o.call = "delete")) = 2

BackendFailed(ops) == \E n \in 1..Len(ops) : ~ops[n].ok

\* C19: a query whose backend call fails is reported as an error, changes no
\* collection and no entry of the index map, and the loop prompts again; a
\* query that the backend answers and of which the filter keeps no result is
\* reported as no matches.
C19_FailingQuery ==
    [][(lastCmd'.op = "query") =>
          /\ BackendFailed(lastOps') =>
                /\ lastOut' = "error"
                /\ cols' = cols
                /\ id_map' = id_map
                /\ pc' = "ran"
          /\ (/\ ~BackendFailed(lastOps')
              /\ \A i \in 1..Len(lastRaw') : FilteredOut(lastRaw'[i])) =>
                lastOut' = "nomatch"]_vars

\* a query has failed in a session that has listed a non-empty collection
C19_Witness ==
    /\ lastCmd.op = "query" /\ lastOut = "error" /\ BackendFailed(lastOps)
    /\ id_map # EmptyMap
    /\ pc = "ran"

\* a query got results and the filter kept none
C19_WitnessNoMatch ==
    /\ lastCmd.op = "query" /\ lastOut = "nomatch"
    /\ lastRaw # <<>>

\* C20: a listing, a query and an export leave the ids, texts and metadata of
\* the three collections unchanged, whether they succeed or fail.
C20_ReadOnlyCommands ==
    [][(lastCmd'.op \in {"list", "query", "export"}) => cols' = cols]_vars

\* an export of a non-empty primary collection has been written
C20_Witness ==
    /\ lastCmd.op = "export" /\ lastOut = "ok"
    /\ "out" \in DOMAIN fs
    /\ fs["out"].val # <<>>
    /\ Ids(cols[collection]) # {}

----------------------------------------------------------------------------
(* Sessions that export the primary collection to a file and import the    *)
(* file again, for each of the three models as the primary one.            *)

ExportStores == {AllEmpty, Earlier, OnlyOther}

InitExportImport ==
    /\ args \in {Args(em, SchemasDefault, TRUE, "") : em \in {"bb", "bl", "e5"}}
    /\ cols \in ExportStores
    /\ fs = [n \in {} |-> Missing]
    /\ now = 0
    /\ pc = "start"
    /\ id_map = EmptyMap
    /\ lastCmd = Cmd("none")
    /\ lastOut = "none"
    /\ lastOps = <<>>
    /\ lastRaw = <<>>
    /\ displayed = <<>>

NextExportImport ==
    \/ \E f \in FailOrNot : Startup(f)
    \/ Prompt
    \/ \E f \in FailOrNot, n \in {"out"} : Export(f, n)
    \/ \E f \in Budgets, n \in {"out"} : Import(f, n)

SpecExportImport == InitExportImport /\ [][NextExportImport]_vars

\* the file holds one entry per fact of the collection, with the fact's id,
\* stored text and metadata: what 'w' writes for that collection
ExportOf(col, file_data) ==
    /\ file_data.type = "list"
    /\ Len(file_data.val) = Cardinality(Ids(col))
    /\ \A i \in 1..Len(file_data.val) :
          LET e == file_data.val[i]
          IN  /\ e.type = "dict"
              /\ DOMAIN e.val = {"id", "text", "metadata"}
              /\ e.val["id"] \in Ids(col)
              /\ e.val["text"] = col[e.val["id"]].document
              /\ e.val["metadata"] = col[e.val["id"]].metadata
    /\ \A i, j \in 1..Len(file_data.val) :
          file_data.val[i].val["id"] = file_data.val[j].val["id"] => i = j

\* C21: export followed by import is the identity on the primary collection:
\* a successful 'r f' of a file that is the export of the primary collection
\* as it stands (nothing has run since 'w f') leaves the primary collection
\* with the same ids, texts and metadata, whichever model is the primary one.
C21_ExportImportIdentity ==
    [][(/\ lastCmd'.op = "import"
        /\ lastOut' = "ok"
        /\ lastCmd'.file \in DOMAIN fs
        /\ ExportOf(cols[collection], fs[lastCmd'.file]))
       => cols'[collection] = cols[collection]]_vars

----------------------------------------------------------------------------
(* Sessions that give '-all' one answer after the other, on servers an      *)
(* earlier session filled.                                                  *)

ConfirmationAnswers ==
    { <<"y","e","s">>, <<" ","Y","e","s">>, <<"Y","E","S"," ">>,
      <<"y","e","s","!">>, <<"y">>, <<"n","o">>, <<>> }

InitDeleteAll ==
    /\ args \in {Args(em, SchemasDefault, TRUE, "") : em \in {"bb", "bl", "e5"}}
    /\ cols \in ReadOnlyStores
    /\ fs = [n \in {} |-> Missing]
    /\ now = 0
    /\ pc = "start"
    /\ id_map = EmptyMap
    /\ lastCmd = Cmd("none")
    /\ lastOut = "none"
    /\ lastOps = <<>>
    /\ lastRaw = <<>>
    /\ displayed = <<>>

NextDeleteAll ==
    \/ \E f \in FailOrNot : Startup(f)
    \/ Prompt
    \/ \E f \in Budgets, c \in ConfirmationAnswers : DeleteAll(f, c)

SpecDeleteAll == InitDeleteAll /\ [][NextDeleteAll]_vars

AllCollectionsEmpty(cs) == \A c \in ModelSetNames : Ids(cs[c]) = {}

C22_WitnessCancelled ==
    /\ lastCmd.op = "delete_all"
    /\ lastCmd.confirm = <<"y">>
    /\ lastOut = "cancelled"
    /\ ~AllCollectionsEmpty(cols)

----------------------------------------------------------------------------
(* Startups with and without --dont-clear and --load-file, for each of the  *)
(* three models as the primary one, on empty and filled servers.            *)

StartupCommandLines ==
    { Args(em, SchemasDefault, dc, lf) :
        em \in {"bb", "bl", "e5"}, dc \in BOOLEAN,
        lf \in {"", "f2", "bad1", "f4bad"} }

InitStartup ==
    /\ args \in StartupCommandLines
    /\ cols \in ExportStores
    /\ fs = [n \in {} |-> Missing]
    /\ now = 0
    /\ pc = "start"
    /\ id_map = EmptyMap
    /\ lastCmd = Cmd("none")
    /\ lastOut = "none"
    /\ lastOps = <<>>
    /\ lastRaw = <<>>
    /\ displayed = <<>>

NextStartup ==
    \/ \E f \in Budgets : Startup(f)
    \/ Prompt
    \/ \E how \in {"exit", "interrupt", "eof"} : Leave(how)

SpecStartup == InitStartup /\ [][NextStartup]_vars

\* the entries of the --load-file, none when no file is given
LoadFileEntries ==
    IF args.load_file = "" THEN <<>> ELSE ReadFile(fs, args.load_file).val

\* C23: startup touches only the primary collection: when startup reaches the
\* first prompt, the other two model-set collections are as they were; the
\* primary collection holds the load file's entries (id, text, metadata) and,
\* with --dont-clear, the facts it held before, and nothing else.
C23_StartupTouchesOnlyPrimary ==
    [][(pc = "start" /\ pc' = "ran") =>
          LET old == IF args.dont_clear THEN cols[collection]
                                        ELSE EmptyCollection
              new == cols'[collection]
              file == LoadFileEntries
          IN  /\ \A c \in ModelSetNames \ {collection} : cols'[c] = cols[c]
              /\ Ids(new) = Ids(old) \cup {file[i].val["id"] : i \in 1..Len(file)}
              /\ \A u \in Ids(old) : new[u] = old[u]
              /\ \A i \in 1..Len(file) :
                    file[i].val["id"] \notin Ids(old) =>
                        new[file[i].val["id"]] =
                            Fact(file[i].val["text"], file[i].val["metadata"])]_vars

====
